---- MODULE Spec2Model ----
(***************************************************************************)
(* Android_Png_Resizer (src/main.py): AndroidImageResizer resizes every    *)
(* uploaded PNG to each selected density and packs the results in a zip;   *)
(* ResizerApp.process_images drives it from the page.                      *)
(***************************************************************************)
EXTENDS Integers, Sequences, FiniteSets, TLC

(***************************************************************************)
(* Bounds of the model.                                                    *)
(***************************************************************************)
MaxFiles == 2
MaxTargets == 2
MaxDim == 5
MaxAppFiles == 1
MaxAppTargets == 1

(***************************************************************************)
(* Python floats are IEEE binary64.  A float is [m, e] with value          *)
(* m * 2^e.  A 53-bit mantissa does not fit a TLC integer, so the natural  *)
(* number m is kept as its digits in base LimbBase, least significant      *)
(* first, without leading zero digits.                                     *)
(***************************************************************************)
Precision == 53
LimbBits == 15
LimbBase == 2 ^ LimbBits

RECURSIVE ToLimbs(_)
ToLimbs(n) ==
    IF n = 0 THEN <<>> ELSE <<n % LimbBase>> \o ToLimbs(n \div LimbBase)

RECURSIVE ToNat(_)
ToNat(x) == IF x = <<>> THEN 0 ELSE x[1] + LimbBase * ToNat(Tail(x))

RECURSIVE Trim(_)
Trim(x) ==
    IF x = <<>> \/ x[Len(x)] # 0 THEN x ELSE Trim(SubSeq(x, 1, Len(x) - 1))

Zeros(n) == [k \in 1..n |-> 0]

\* Number of bits of the small natural v, and of the limb sequence x.
SmallBitLen(v) == CHOOSE k \in 0..31 : v < 2 ^ k /\ (k = 0 \/ v >= 2 ^ (k - 1))

BitLen(x) ==
    IF x = <<>> THEN 0 ELSE (Len(x) - 1) * LimbBits + SmallBitLen(x[Len(x)])

\* x * n + c for small n, c.
RECURSIVE MulSmall(_, _, _)
MulSmall(x, n, c) ==
    IF x = <<>> THEN ToLimbs(c)
    ELSE LET p == x[1] * n + c
         IN  <<p % LimbBase>> \o MulSmall(Tail(x), n, p \div LimbBase)

\* Quotient and remainder of x by the small d.
RECURSIVE DivSmall(_, _)
DivSmall(x, d) ==
    IF x = <<>> THEN [q |-> <<>>, r |-> 0]
    ELSE LET hi  == DivSmall(Tail(x), d)
             cur == hi.r * LimbBase + x[1]
         IN  [q |-> <<cur \div d>> \o hi.q, r |-> cur % d]

\* x * 2^k.
Shl(x, k) ==
    IF x = <<>> THEN <<>>
    ELSE Zeros(k \div LimbBits) \o Trim(MulSmall(x, 2 ^ (k % LimbBits), 0))

\* floor(x / 2^k), and whether a nonzero remainder was dropped.
Shr(x, k) ==
    LET whole == k \div LimbBits
        d     == DivSmall(SubSeq(x, whole + 1, Len(x)), 2 ^ (k % LimbBits))
    IN  [q  |-> Trim(d.q),
         nz |-> d.r # 0 \/ \E i \in 1..whole : i <= Len(x) /\ x[i] # 0]

\* m * 2^e (plus a nonzero rest below m's last bit when sticky) rounded to
\* Precision bits, to nearest, ties to even.
RoundToPrecision(m, sticky, e) ==
    IF BitLen(m) <= Precision THEN [m |-> m, e |-> e]
    ELSE LET k     == BitLen(m) - Precision
             low   == Shr(m, k - 1)
             guard == low.q[1] % 2 = 1
             kept  == Shr(low.q, 1).q
             rest  == sticky \/ low.nz
             up    == guard /\ (rest \/ kept[1] % 2 = 1)
         IN  [m |-> IF up THEN Trim(MulSmall(kept, 1, 1)) ELSE kept, e |-> e + k]

\* x / y on floats (the divisor's mantissa is small).
FloatDiv(x, y) ==
    LET s == Precision + 2 + BitLen(y.m)
        d == DivSmall(Shl(x.m, s), ToNat(y.m))
    IN  RoundToPrecision(Trim(d.q), d.r # 0, x.e - y.e - s)

\* n * x for an int n and a float x: n converts exactly, the product rounds.
FloatMulInt(n, x) == RoundToPrecision(Trim(MulSmall(x.m, n, 0)), FALSE, x.e)

\* int(x) for a float x >= 0: truncation.
int(x) == IF x.e >= 0 THEN ToNat(Shl(x.m, x.e)) ELSE ToNat(Shr(x.m, 0 - x.e).q)

Float(m, e) == [m |-> ToLimbs(m), e |-> e]

(***************************************************************************)
(* AndroidImageResizer.density_map.                                        *)
(***************************************************************************)
density_map ==
    "ldpi"    :> Float(3, -2) @@     \* 0.75
    "mdpi"    :> Float(1, 0)  @@     \* 1.0
    "hdpi"    :> Float(3, -1) @@     \* 1.5
    "xhdpi"   :> Float(1, 1)  @@     \* 2.0
    "xxhdpi"  :> Float(3, 0)  @@     \* 3.0
    "xxxhdpi" :> Float(1, 2)         \* 4.0

Densities == DOMAIN density_map

\* _resize_image, line 44: density_map[density] / self.base_scale.
\* (scale_ratio_nobase: the same without the division.)
scale_ratio_nobase(density, base_scale) == density_map[density]

scale_ratio(density, base_scale) == FloatDiv(density_map[density], base_scale)

\* _resize_image, line 45: (int(img.width * ratio), int(img.height * ratio)).
\* (new_size_ceil: the same rounding up instead of truncating.)
new_size_ceil(img, ratio) ==
    LET up(n) == LET f == FloatMulInt(n, ratio)
                 IN  IF f.e < 0 /\ Shr(f.m, 0 - f.e).nz
                     THEN int(f) + 1 ELSE int(f)
    IN  <<up(img.width), up(img.height)>>

new_size_of(img, ratio) ==
    <<int(FloatMulInt(img.width, ratio)), int(FloatMulInt(img.height, ratio))>>

\* _resize_image, line 47.  (path_in_zip_flat: the same without the
\* density's directory.)
path_in_zip_flat(density, filename) == "drawable/" \o filename

path_in_zip(density, filename) == "drawable-" \o density \o "/" \o filename

(***************************************************************************)
(* Uploaded files.  Image.open raises on a "bad" payload; a "truncated"    *)
(* one opens (the header gives its size) and raises when img.resize loads  *)
(* the pixels; a "good" one decodes.                                       *)
(***************************************************************************)
Payload(name, kind, w, h) ==
    [name |-> name, kind |-> kind, width |-> w, height |-> h]

Payloads ==
    { Payload("a.png", "bad", 0, 0),
      Payload("a.png", "good", 1, 1),
      Payload("b.png", "good", 8, 6),
      Payload("b.png", "truncated", 2, 2) }

\* The lines resize_images logs (lines 29, 38, 41), by their fields.
Line(kind, name, density, w, h, err) ==
    [kind |-> kind, name |-> name, density |-> density, w |-> w, h |-> h,
     err |-> err]

ProcessedLine(name, w, h) == Line("processed", name, "", w, h, "")
SuccessLine(density, w, h) == Line("ok", "", density, w, h, "")
ErrorLine(name, err) == Line("error", name, "", 0, 0, err)

\* _log, lines 54-55.  (_log_prepend: the same inserting at the front.)
_log_prepend(L, message) == <<message>> \o L

_log(L, message) == Append(L, message)

\* The zip buffer: the entries written so far, and whether the central
\* directory that makes them an archive has been written (ZipFile.close).
EmptyBuffer == [entries |-> <<>>, eocd |-> FALSE]

\* zipf.writestr(path_in_zip, img_byte_arr.read()), line 37: the bytes are
\* the PNG encoding of the source image resized to size.
writestr(Z, path, f, size) ==
    [Z EXCEPT !.entries = Append(@, [path |-> path,
                                     data |-> [src |-> f, size |-> size]])]

\* Leaving the with block of line 24 closes the ZipFile.
\* (close_nonempty_only: the same writing no directory for an empty zip.)
close_nonempty_only(Z) == [Z EXCEPT !.eocd = (Z.entries # <<>>)]

close(Z) == [Z EXCEPT !.eocd = TRUE]

\* get_zip, lines 50-52: seek(0), then read the whole buffer.
get_zip(Z) == Z

\* The entries a zip reader finds in the bytes.
ArchiveEntries(bytes) == IF bytes.eocd THEN bytes.entries ELSE <<>>

\* The exception lines 32-37 raise for file f, opened as img, at density,
\* "" when they raise none: KeyError from density_map[density] (line 44),
\* OSError when img.resize loads a truncated file, ValueError when it is
\* asked for a side below 1 (line 46).
step_error(f, img, density, base_scale) ==
    IF density \notin Densities THEN "KeyError"
    ELSE IF f.kind = "truncated" THEN "OSError"
    ELSE LET size == new_size_of(img, scale_ratio(density, base_scale))
         IN  IF size[1] < 1 \/ size[2] < 1 THEN "ValueError" ELSE ""

\* One pass of the density loop's body, lines 32-38, on the logs L and the
\* zip Z: the requested size (<<>> when line 45 is not reached), the
\* exception raised and the logs and zip after it.
\* (density_body_log_first: the same with line 38 moved before img.resize.)
density_body_log_first(f, img, density, base_scale, L, Z) ==
    LET err  == step_error(f, img, density, base_scale)
        size == IF err = "KeyError" THEN <<>>
                ELSE new_size_of(img, scale_ratio(density, base_scale))
    IN  [new_size |-> size, err |-> err,
         logs |-> IF err = "KeyError" THEN L
                  ELSE _log(L, SuccessLine(density, size[1], size[2])),
         zip |-> IF err = "" THEN writestr(Z, path_in_zip(density, f.name), f, size)
                 ELSE Z]

density_body(f, img, density, base_scale, L, Z) ==
    LET err  == step_error(f, img, density, base_scale)
        size == IF err = "KeyError" THEN <<>>
                ELSE new_size_of(img, scale_ratio(density, base_scale))
    IN  [new_size |-> size, err |-> err,
         logs |-> IF err = "" THEN _log(L, SuccessLine(density, size[1], size[2]))
                  ELSE L,
         zip |-> IF err = "" THEN writestr(Z, path_in_zip(density, f.name), f, size)
                 ELSE Z]

\* __init__, line 20: every resizer starts with a list of its own.
\* (init_logs_shared: the same with one list shared by all resizers.)
init_logs_shared(old) == old

init_logs(old) == <<>>

(***************************************************************************)
(* State: the resizer's attributes, the locals of resize_images, and what  *)
(* the caller holds (the exception raised to it, the page's log lines, the *)
(* download's bytes, the page's st.error message).                         *)
(***************************************************************************)
VARIABLES
    base_density, target_densities, base_scale, logs, zip_buffer,
    files, fi, img, di, new_size,
    pc, raised, shown, zip_bytes, st_error

resizer == <<base_density, target_densities, base_scale, logs, zip_buffer>>
locals == <<files, fi, img, di, new_size>>
page == <<shown, zip_bytes, st_error>>
vars == <<resizer, locals, page, pc, raised>>

NoImage == [width |-> 0, height |-> 0]

Init ==
    /\ base_density = ""
    /\ target_densities = <<>>
    /\ base_scale = Float(0, 0)
    /\ logs = <<>>
    /\ zip_buffer = EmptyBuffer
    /\ files = <<>>
    /\ fi = 0
    /\ img = NoImage
    /\ di = 0
    /\ new_size = <<>>
    /\ pc = "start"
    /\ raised = ""
    /\ shown = <<>>
    /\ zip_bytes = EmptyBuffer
    /\ st_error = ""

\* AndroidImageResizer(base, targets), lines 16-21, then the entry of
\* resize_images(fs), lines 23-24.  An unknown base raises KeyError at line
\* 19, out of the constructor.
construct_and_call(base, targets, fs) ==
    /\ base_density' = base
    /\ target_densities' = targets
    /\ IF base \notin Densities
       THEN /\ raised' = "KeyError"
            /\ pc' = "raised"
            /\ UNCHANGED <<base_scale, logs, zip_buffer, locals>>
       ELSE /\ base_scale' = density_map[base]
            /\ logs' = init_logs(logs)
            /\ zip_buffer' = EmptyBuffer
            /\ files' = fs
            /\ fi' = 0
            /\ img' = NoImage
            /\ di' = 0
            /\ new_size' = <<>>
            /\ raised' = ""
            /\ pc' = "for_file"

\* A caller of the class: one resizer, any arguments.
Start(base, targets, fs) ==
    /\ pc = "start"
    /\ construct_and_call(base, targets, fs)
    /\ UNCHANGED page

\* ResizerApp.process_images, lines 82-91, on a press of the button.  The
\* page keeps what the press before drew until this one draws over it: a
\* rejected request leaves only its st.error.
process_images(fs, base, selected) ==
    /\ pc \in {"start", "idle"}
    /\ IF fs = <<>> \/ selected = <<>>
       THEN /\ st_error' = IF fs = <<>> THEN "no files" ELSE "no densities"
            /\ shown' = <<>>
            /\ zip_bytes' = EmptyBuffer
            /\ pc' = "idle"
            /\ UNCHANGED <<resizer, locals, raised>>
       ELSE /\ construct_and_call(base, selected, fs)
            /\ UNCHANGED page

\* except Exception as e, lines 40-41, for files[i] with the logs at L: log
\* the error; the for loop of line 25 goes on with the next file.
\* (except_abort: the same with the try around the loop over the files;
\* except_inner: the same with the try inside the loop over the densities.)
except_abort(L, i, err) ==
    /\ logs' = _log(L, ErrorLine(files[i].name, err))
    /\ fi' = Len(files)
    /\ pc' = "for_file"

except_inner(L, i, err) ==
    /\ logs' = _log(L, ErrorLine(files[i].name, err))
    /\ fi' = i
    /\ pc' = IF pc = "for_density" THEN "for_density" ELSE "for_file"

except(L, i, err) ==
    /\ logs' = _log(L, ErrorLine(files[i].name, err))
    /\ fi' = i
    /\ pc' = "for_file"

\* Lines 25-29: the next file; Image.open, and the line that reports it.
NextFile ==
    /\ pc = "for_file"
    /\ fi < Len(files)
    /\ LET f == files[fi + 1]
       IN  IF f.kind = "bad"
           THEN /\ except(logs, fi + 1, "UnidentifiedImageError")
                /\ UNCHANGED <<img, di, new_size>>
           ELSE /\ img' = [width |-> f.width, height |-> f.height]
                /\ logs' = _log(logs, ProcessedLine(f.name, f.width, f.height))
                /\ fi' = fi + 1
                /\ di' = 0
                /\ new_size' = <<>>
                /\ pc' = "for_density"
    /\ UNCHANGED <<base_density, target_densities, base_scale, zip_buffer,
                   files, page, raised>>

\* Lines 31-38: the next density of the current file.
NextDensity ==
    /\ pc = "for_density"
    /\ di < Len(target_densities)
    /\ LET r == density_body(files[fi], img, target_densities[di + 1],
                             base_scale, logs, zip_buffer)
       IN  /\ di' = di + 1
           /\ new_size' = r.new_size
           /\ zip_buffer' = r.zip
           /\ IF r.err # ""
              THEN except(r.logs, fi, r.err)
              ELSE /\ logs' = r.logs
                   /\ UNCHANGED <<fi, pc>>
    /\ UNCHANGED <<base_density, target_densities, base_scale, files, img,
                   page, raised>>

\* Line 31, the densities exhausted: back to the loop over the files.
EndDensities ==
    /\ pc = "for_density"
    /\ di = Len(target_densities)
    /\ pc' = "for_file"
    /\ UNCHANGED <<resizer, locals, page, raised>>

\* Line 25, the files exhausted: the with block closes the zip and
\* resize_images returns.
EndFiles ==
    /\ pc = "for_file"
    /\ fi = Len(files)
    /\ zip_buffer' = close(zip_buffer)
    /\ pc' = "done"
    /\ UNCHANGED <<base_density, target_densities, base_scale, logs, locals,
                   page, raised>>

\* process_images, lines 92-100: show_logs writes the lines to the page,
\* get_zip's bytes go to the download button.
Deliver ==
    /\ pc = "done"
    /\ shown' = logs
    /\ zip_bytes' = get_zip(zip_buffer)
    /\ st_error' = ""
    /\ pc' = "idle"
    /\ UNCHANGED <<resizer, locals, raised>>

Steps == NextFile \/ NextDensity \/ EndDensities \/ EndFiles \/ Deliver

(***************************************************************************)
(* Spec: one resizer, driven by any caller of the class.                   *)
(***************************************************************************)
UnknownDensity == "tvdpi"
CoreBases == {"xhdpi", "xxxhdpi", UnknownDensity}
CoreTargets == {"ldpi", "xhdpi", "xxxhdpi", UnknownDensity}

SeqsUpTo(S, n) == UNION {[1..k -> S] : k \in 0..n}
TargetLists(S, n) ==
    {s \in SeqsUpTo(S, n) : \A i, j \in DOMAIN s : i # j => s[i] # s[j]}

Next ==
    \/ \E base \in CoreBases, targets \in TargetLists(CoreTargets, MaxTargets),
          fs \in SeqsUpTo(Payloads, MaxFiles) : Start(base, targets, fs)
    \/ Steps

Spec == Init /\ [][Next]_vars

(***************************************************************************)
(* SpecApp: the page, where the densities come from the select boxes and   *)
(* every press of the button calls process_images.                         *)
(***************************************************************************)
AppDensities == {"xhdpi", "xxxhdpi"}

NextApp ==
    \/ \E fs \in SeqsUpTo(Payloads, MaxAppFiles), base \in AppDensities,
          selected \in TargetLists(AppDensities, MaxAppTargets) :
            process_images(fs, base, selected)
    \/ Steps

SpecApp == Init /\ [][NextApp]_vars

(***************************************************************************)
(* SpecDim: _resize_image on one image of every size up to MaxDim (and the *)
(* 101 of the documented example), for every base and target density.      *)
(***************************************************************************)
Dims == (1..MaxDim) \cup {101}

NextDim ==
    \/ \E base \in Densities, target \in Densities, w \in Dims, h \in Dims :
          Start(base, <<target>>, <<Payload("icon.png", "good", w, h)>>)
    \/ Steps

SpecDim == Init /\ [][NextDim]_vars

(***************************************************************************)
(* What the documentation promises, stated without the float arithmetic:   *)
(* the scale factors are whole numbers of quarters, so the documented      *)
(* floor(n * scale_of(target) / scale_of(base)) is an integer division.    *)
(***************************************************************************)
Quarters(d) == ToNat(Shl(density_map[d].m, density_map[d].e + 2))

FloorScaled(n, target, base) == (n * Quarters(target)) \div Quarters(base)

DocSize(f, target, base) ==
    <<FloorScaled(f.width, target, base), FloorScaled(f.height, target, base)>>

DocPath(density, filename) == "drawable-" \o density \o "/" \o filename

Decodes(f) == f.kind # "bad"

\* The error of file f's step for density d, "" when the step succeeds.
DocError(f, d, base) ==
    IF d \notin Densities THEN "KeyError"
    ELSE IF f.kind = "truncated" THEN "OSError"
    ELSE IF DocSize(f, d, base)[1] < 1 \/ DocSize(f, d, base)[2] < 1
    THEN "ValueError" ELSE ""

\* The first failing step of f, Len(ts) + 1 when none fails.
FirstFail(f, ts, base) ==
    LET failing == {j \in 1..Len(ts) : DocError(f, ts[j], base) # ""}
    IN  IF failing = {} THEN Len(ts) + 1
        ELSE CHOOSE j \in failing : \A k \in failing : j <= k

DocImageEntries(f, ts, base) ==
    IF ~Decodes(f) THEN <<>>
    ELSE [j \in 1..(FirstFail(f, ts, base) - 1) |->
            [path |-> DocPath(ts[j], f.name),
             data |-> [src |-> f, size |-> DocSize(f, ts[j], base)]]]

DocImageLog(f, ts, base) ==
    IF ~Decodes(f) THEN <<ErrorLine(f.name, "UnidentifiedImageError")>>
    ELSE LET k == FirstFail(f, ts, base)
         IN  <<ProcessedLine(f.name, f.width, f.height)>>
             \o [j \in 1..(k - 1) |->
                   SuccessLine(ts[j], DocSize(f, ts[j], base)[1],
                               DocSize(f, ts[j], base)[2])]
             \o (IF k <= Len(ts)
                 THEN <<ErrorLine(f.name, DocError(f, ts[k], base))>>
                 ELSE <<>>)

RECURSIVE DocEntries(_, _, _)
DocEntries(fs, ts, base) ==
    IF fs = <<>> THEN <<>>
    ELSE DocImageEntries(Head(fs), ts, base) \o DocEntries(Tail(fs), ts, base)

RECURSIVE DocLogs(_, _, _)
DocLogs(fs, ts, base) ==
    IF fs = <<>> THEN <<>>
    ELSE DocImageLog(Head(fs), ts, base) \o DocLogs(Tail(fs), ts, base)

Paths(es) == [k \in DOMAIN es |-> es[k].path]

\* One path per image that decodes and per target density.
RECURSIVE FullPaths(_, _)
FullPaths(fs, ts) ==
    IF fs = <<>> THEN <<>>
    ELSE (IF Decodes(Head(fs))
          THEN [j \in 1..Len(ts) |-> DocPath(ts[j], Head(fs).name)]
          ELSE <<>>) \o FullPaths(Tail(fs), ts)

PrefixOf(s, t) == Len(s) <= Len(t) /\ SubSeq(t, 1, Len(s)) = s

KnownTargets == \A j \in DOMAIN target_densities : target_densities[j] \in Densities

IsDecodeError(l) == l.kind = "error" /\ l.err = "UnidentifiedImageError"

DecodeErrorLines(fs) ==
    LET bad == SelectSeq(fs, LAMBDA f : ~Decodes(f))
    IN  [k \in DOMAIN bad |-> ErrorLine(bad[k].name, "UnidentifiedImageError")]

(***************************************************************************)
(* C1, as stated: when resize_images has returned, no entry comes from an  *)
(* image whose decode failed, the log has exactly one decode error line    *)
(* per such image, and every other image has one entry per target density. *)
(* It fails for an image that decodes and whose own step fails.            *)
(***************************************************************************)
C1_FullSetPerImage ==
    (pc = "done" /\ KnownTargets /\ \E k \in DOMAIN files : ~Decodes(files[k])) =>
        /\ \A k \in DOMAIN zip_buffer.entries :
              Decodes(zip_buffer.entries[k].data.src)
        /\ SelectSeq(logs, IsDecodeError) = DecodeErrorLines(files)
        /\ Paths(zip_buffer.entries) = FullPaths(files, target_densities)

(***************************************************************************)
(* C1, amended: when resize_images has returned, no entry comes from an    *)
(* image whose decode failed, the log has exactly one decode error line    *)
(* per such image, in input order and naming it, and the entries are       *)
(* exactly those of the batch without the images whose decode failed: for  *)
(* each other image one per target density up to its own first failing     *)
(* step.                                                                   *)
(***************************************************************************)
C1_FailureIsolation ==
    pc = "done" =>
        /\ \A k \in DOMAIN zip_buffer.entries :
              Decodes(zip_buffer.entries[k].data.src)
        /\ SelectSeq(logs, IsDecodeError) = DecodeErrorLines(files)
        /\ zip_buffer.entries =
              DocEntries(SelectSeq(files, Decodes), target_densities, base_density)

\* A batch whose first image failed to decode and whose later image was
\* written in full.
C1_Witness ==
    /\ pc = "done"
    /\ Len(files) = 2
    /\ ~Decodes(files[1])
    /\ Decodes(files[2])
    /\ Len(target_densities) = 2
    /\ Len(zip_buffer.entries) = 2

(***************************************************************************)
(* C2: the size _resize_image requests is exactly                          *)
(* (floor(w * scale_of(t) / scale_of(b)), floor(h * scale_of(t) /          *)
(* scale_of(b))) for the image's width w and height h, the target density  *)
(* t and the base density b: both sides truncated, never rounded up.       *)
(***************************************************************************)
C2_Truncation ==
    new_size # <<>> =>
        new_size = <<FloorScaled(img.width, target_densities[di], base_density),
                     FloorScaled(img.height, target_densities[di], base_density)>>

\* At ratio 1.5 (xhdpi to xxhdpi) 101 x 5 asked for 151 x 7: 151.5 and 7.5
\* truncated.
C2_Witness ==
    /\ img = [width |-> 101, height |-> 5]
    /\ base_density = "xhdpi"
    /\ di = 1 /\ target_densities = <<"xxhdpi">>
    /\ new_size = <<151, 7>>

(***************************************************************************)
(* C3: after resize_images has returned and get_zip has read the buffer,   *)
(* the paths of the archive's entries are, in order, the path              *)
(* "drawable-<density>/<filename>" for every image in input order and,     *)
(* within an image, every target density in the order supplied up to the   *)
(* image's first failing step; the bytes of get_zip hold every entry that  *)
(* was written and no other.                                               *)
(***************************************************************************)
C3_ArchiveContents ==
    /\ pc = "done" =>
          Paths(zip_buffer.entries) =
              Paths(DocEntries(files, target_densities, base_density))
    /\ pc = "idle" =>
          /\ Paths(ArchiveEntries(zip_bytes)) =
                Paths(DocEntries(files, target_densities, base_density))
          /\ ArchiveEntries(zip_bytes) = zip_buffer.entries

\* Two images of the same name, each written at two densities, are four
\* entries in the bytes get_zip returned.
C3_Witness ==
    /\ pc = "idle"
    /\ Len(files) = 2
    /\ files[1].name = files[2].name
    /\ Len(ArchiveEntries(zip_bytes)) = 4

\* L is one group per file of fs, the group of a file that decodes starting
\* with its processed line and one success line for every density of ts.
RECURSIVE FullGroups(_, _, _)
FullGroups(L, fs, ts) ==
    IF fs = <<>> THEN L = <<>>
    ELSE LET f == Head(fs)
             n == Len(ts)
         IN  IF ~Decodes(f)
             THEN /\ L # <<>>
                  /\ L[1] = ErrorLine(f.name, "UnidentifiedImageError")
                  /\ FullGroups(Tail(L), Tail(fs), ts)
             ELSE /\ Len(L) >= n + 1
                  /\ L[1] = ProcessedLine(f.name, f.width, f.height)
                  /\ \A j \in 1..n : L[j + 1].kind = "ok" /\ L[j + 1].density = ts[j]
                  /\ \/ FullGroups(SubSeq(L, n + 2, Len(L)), Tail(fs), ts)
                     \/ /\ Len(L) >= n + 2
                        /\ L[n + 2].kind = "error"
                        /\ FullGroups(SubSeq(L, n + 3, Len(L)), Tail(fs), ts)

(***************************************************************************)
(* C4, as stated: when resize_images has returned, the log is one group    *)
(* per image in input order, and the group of an image that decodes starts *)
(* with its processed line followed by one success line per target         *)
(* density, in the order supplied.  It fails for an image one of whose     *)
(* steps fails: the success lines stop there.                              *)
(***************************************************************************)
C4_FullGroupPerImage ==
    (pc = "done" /\ KnownTargets) => FullGroups(logs, files, target_densities)

(***************************************************************************)
(* C4, amended: the log only ever grows at its end, and when               *)
(* resize_images has returned it is one group per image in input order:    *)
(* for an image whose decode failed its error line, and for an image that  *)
(* decodes exactly one processed line (filename and original dimensions),  *)
(* then one success line per target density in the order supplied up to    *)
(* the image's first failing step, then one error line if a step failed.   *)
(***************************************************************************)
C4_LogOrdering ==
    /\ [](pc = "done" => logs = DocLogs(files, target_densities, base_density))
    /\ [][PrefixOf(logs, logs')]_vars

\* One image with two targets gave a processed line and two success lines,
\* in the order of the targets.
C4_Witness ==
    /\ pc = "done"
    /\ Len(files) = 1
    /\ target_densities = <<"xxxhdpi", "ldpi">>
    /\ Len(logs) = 3
    /\ logs[1].kind = "processed"
    /\ logs[2].kind = "ok" /\ logs[2].density = "xxxhdpi"
    /\ logs[3].kind = "ok" /\ logs[3].density = "ldpi"

(***************************************************************************)
(* C5: when the base density or a target density is not one of the six     *)
(* names, the call ends with the error raised to the caller, no log line   *)
(* appended and no archive entry written (stated here for a batch of       *)
(* good images).  The code looks a target up only inside the per-image     *)
(* try (line 44), so an unknown target ends as each image's error line     *)
(* and the call returns normally.                                          *)
(***************************************************************************)
C5_UnknownDensitySurfaced ==
    (/\ pc \in {"raised", "done", "idle"}
     /\ base_density \notin Densities \/ ~KnownTargets
     /\ base_density \in Densities =>
           files # <<>> /\ \A k \in DOMAIN files : files[k].kind = "good")
    =>
        /\ raised = "KeyError"
        /\ logs = <<>>
        /\ zip_buffer.entries = <<>>

(***************************************************************************)
(* C6: a step of the density loop that fails for the k-th target density   *)
(* of an image leaves the archive as it is, with the image's k-1 entries   *)
(* last in it, appends exactly one error line naming the image, and hands  *)
(* control to the loop over the files at the next image: no further        *)
(* density of the image is tried.                                          *)
(***************************************************************************)
C6_PartialFailure ==
    [][(/\ pc = "for_density"
        /\ di < Len(target_densities)
        /\ step_error(files[fi], img, target_densities[di + 1], base_scale) # "")
       =>
       (/\ zip_buffer' = zip_buffer
        /\ Len(zip_buffer.entries) >= di
        /\ \A j \in 1..di :
              LET e == zip_buffer.entries[Len(zip_buffer.entries) - di + j]
              IN  e.path = DocPath(target_densities[j], files[fi].name)
                  /\ e.data.src = files[fi]
        /\ logs' = Append(logs, ErrorLine(files[fi].name,
                      step_error(files[fi], img, target_densities[di + 1],
                                 base_scale)))
        /\ pc' = "for_file"
        /\ fi' = fi
        /\ files' = files)]_vars

\* The second density of the first of two images failed after the first
\* was written, and the second image was then processed.
C6_Witness ==
    /\ pc = "done"
    /\ Len(files) = 2
    /\ Len(target_densities) = 2
    /\ Len(logs) >= 4
    /\ logs[2].kind = "ok"
    /\ logs[3].kind = "error" /\ logs[3].err = "ValueError"
    /\ logs[4].kind = "processed"
    /\ zip_buffer.entries # <<>>
    /\ zip_buffer.entries[1].data.src = files[1]

(***************************************************************************)
(* C7, as stated: with a known base density, an empty sequence of images   *)
(* or an empty list of target densities gives an archive with no entry     *)
(* and an empty log (stated here for images that decode).  With no target  *)
(* density the log still has the processed line of every image.            *)
(***************************************************************************)
C7_EmptyLog ==
    (pc = "idle" /\ base_density \in Densities
        /\ (files = <<>> \/ target_densities = <<>>)
        /\ \A k \in DOMAIN files : Decodes(files[k])) =>
        /\ zip_bytes.eocd
        /\ ArchiveEntries(zip_bytes) = <<>>
        /\ shown = <<>>

(***************************************************************************)
(* C7, amended: with a known base density, an empty sequence of images or  *)
(* an empty list of target densities never fails and gives a valid         *)
(* archive with no entry; the log is empty for an empty sequence of        *)
(* images, and for an empty list of target densities it is exactly one     *)
(* line per image, its processed line or its decode error line.            *)
(***************************************************************************)
C7_EmptyInputs ==
    (pc # "start" /\ base_density \in Densities
        /\ (files = <<>> \/ target_densities = <<>>)) =>
        /\ raised = ""
        /\ zip_buffer.entries = <<>>
        /\ pc = "idle" =>
              /\ zip_bytes.eocd
              /\ ArchiveEntries(zip_bytes) = <<>>
              /\ files = <<>> => shown = <<>>
              /\ target_densities = <<>> =>
                    shown = [k \in DOMAIN files |->
                               IF Decodes(files[k])
                               THEN ProcessedLine(files[k].name, files[k].width,
                                                  files[k].height)
                               ELSE ErrorLine(files[k].name,
                                              "UnidentifiedImageError")]

\* Two images, one of them undecodable, and no target density: delivered
\* with a line for each and a valid archive.
C7_Witness ==
    /\ pc = "idle"
    /\ base_density \in Densities
    /\ target_densities = <<>>
    /\ Len(files) = 2
    /\ ~Decodes(files[1])
    /\ Decodes(files[2])
    /\ Len(shown) = 2
    /\ zip_bytes.eocd

(***************************************************************************)
(* C8: whatever the page processed before, the log and the archive of a    *)
(* call of process_images hold only what that call produced: while it      *)
(* runs they are a prefix of, and when it returns and is delivered they    *)
(* are exactly, the lines and entries of its own images and densities; a   *)
(* rejected request shows no log and no archive.                           *)
(***************************************************************************)
C8_NoStateCarried ==
    /\ pc \in {"for_file", "for_density"} =>
          /\ PrefixOf(logs, DocLogs(files, target_densities, base_density))
          /\ PrefixOf(zip_buffer.entries,
                      DocEntries(files, target_densities, base_density))
    /\ pc = "done" =>
          /\ logs = DocLogs(files, target_densities, base_density)
          /\ zip_buffer.entries = DocEntries(files, target_densities, base_density)
    /\ (pc = "idle" /\ st_error = "") =>
          /\ shown = DocLogs(files, target_densities, base_density)
          /\ ArchiveEntries(zip_bytes) =
                DocEntries(files, target_densities, base_density)
    /\ (pc = "idle" /\ st_error # "") =>
          /\ shown = <<>>
          /\ zip_bytes = EmptyBuffer

\* A later call has returned with its own lines and entries while the page
\* still shows the different lines and entries of an earlier call.
C8_Witness ==
    /\ pc = "done"
    /\ shown # <<>>
    /\ ArchiveEntries(zip_bytes) # <<>>
    /\ logs # <<>>
    /\ zip_buffer.entries # <<>>
    /\ shown # logs
    /\ zip_bytes # zip_buffer

(***************************************************************************)
(* C9: with the target density equal to the base density, the size         *)
(* _resize_image requests is the image's own size.                         *)
(***************************************************************************)
C9_IdentityAtRatioOne ==
    (new_size # <<>> /\ target_densities[di] = base_density) =>
        new_size = <<img.width, img.height>>

\* hdpi to hdpi (1.5 / 1.5) kept 101 x 5.
C9_Witness ==
    /\ base_density = "hdpi"
    /\ di = 1 /\ target_densities = <<"hdpi">>
    /\ img = [width |-> 101, height |-> 5]
    /\ new_size = <<101, 5>>

(***************************************************************************)
(* C10: in every state the success lines of the log and the entries of     *)
(* the archive correspond one to one, in order: the i-th success line      *)
(* names the density and the size of the i-th entry.                       *)
(***************************************************************************)
C10_LogArchiveAgreement ==
    LET oks == SelectSeq(logs, LAMBDA l : l.kind = "ok")
        es  == zip_buffer.entries
    IN  /\ Len(oks) = Len(es)
        /\ \A k \in DOMAIN es :
              /\ es[k].path = DocPath(oks[k].density, es[k].data.src.name)
              /\ es[k].data.size = <<oks[k].w, oks[k].h>>

\* Three entries and three success lines, with an error line among the
\* lines.
C10_Witness ==
    /\ pc = "done"
    /\ Len(zip_buffer.entries) = 3
    /\ Len(SelectSeq(logs, LAMBDA l : l.kind = "ok")) = 3
    /\ \E k \in DOMAIN logs : logs[k].kind = "error" /\ logs[k].err = "ValueError"
====
